---- MODULE Spec2Model ----
(***************************************************************************)
(* A model of dwh/query_lib.py: the PatientQuery constraint builder, the   *)
(* WHERE-clause text it renders, the Spark flatten / join / aggregate      *)
(* pipeline of _SparkPatientQuery, the date-value key that recovers the    *)
(* first and last value of a group, and patient_query_factory with the     *)
(* _BigQueryPatientQuery it can return.  Of the fields of the query the    *)
(* write-only _patient_agg_obs_df and the handles on the unchanged input   *)
(* data (_spark, _patient_df, _obs_df, _enc_df) are not state.             *)
(*                                                                         *)
(* Conventions.  A Python value that may be None is a sequence of length   *)
(* at most one: None is << >> and a present value v is << v >>.  Text that *)
(* is compared or concatenated character by character (timestamps, value   *)
(* text, merged keys) is a sequence of character codes; identifiers that   *)
(* are only tested for equality (codes, systems, ids) are TLA+ strings.    *)
(* SQL text is a sequence of tokens: parentheses, AND, OR, the literals    *)
(* TRUE and FALSE, and comparison atoms.                                   *)
(***************************************************************************)
EXTENDS Integers, Sequences, FiniteSets, Bags, TLC

VARIABLES
    query_class,          \* the class of the query instance the factory made
    data_source,          \* _SparkPatientQuery._file_root / _BigQueryPatientQuery._bq_dataset
    code_system,          \* PatientQuery._code_system
    code_constraint,      \* PatientQuery._code_constraint : code -> _ObsConstraints
    enc_constraint,       \* PatientQuery._enc_constraint
    include_all_codes,    \* PatientQuery._include_all_codes
    all_codes_min_time,   \* PatientQuery._all_codes_min_time
    all_codes_max_time,   \* PatientQuery._all_codes_max_time
    flat_obs,             \* _SparkPatientQuery._flat_obs (None until first obs view)
    call,                 \* the last call made on the query and what it returned
    rows,                 \* key study: flattened rows of one group not yet aggregated
    agg,                  \* key study: running aggregate of the group
    decoded               \* key study: first_value / last_value after decoding

vars == << query_class, data_source, code_system, code_constraint, enc_constraint, include_all_codes,
           all_codes_min_time, all_codes_max_time, flat_obs, call,
           rows, agg, decoded >>

queryVars == << query_class, data_source, code_system, code_constraint, enc_constraint, include_all_codes,
                all_codes_min_time, all_codes_max_time, flat_obs, call >>

keyVars == << rows, agg, decoded >>

queryVarsButCall == << query_class, data_source, code_system, code_constraint,
                       enc_constraint, include_all_codes, all_codes_min_time,
                       all_codes_max_time, flat_obs >>

-----------------------------------------------------------------------------
(* Python values *)

None == << >>

Some(v) == << v >>

\* Python truthiness of an optional str or list: None, '' and [] are falsy.
TruthySeq(o) == o # None /\ Len(o[1]) > 0

\* Python truthiness of an optional number: None and 0 are falsy.
TruthyNum(o) == o # None /\ o[1] # 0

\* Python truthiness of an optional identifier (a str tested only for equality).
TruthyId(o) == o # None /\ o[1] # ""

RECURSIVE Join(_, _)
\* sep.join(parts) on token sequences.
Join(parts, sep) ==
    IF parts = << >> THEN << >>
    ELSE IF Len(parts) = 1 THEN parts[1]
    ELSE parts[1] \o sep \o Join(Tail(parts), sep)

RECURSIVE Concat(_)
Concat(seqs) == IF seqs = << >> THEN << >> ELSE Head(seqs) \o Concat(Tail(seqs))

Range(s) == { s[i] : i \in 1..Len(s) }

-----------------------------------------------------------------------------
(* Character text *)

RECURSIVE StrLess(_, _)
\* Binary (code point) order of two texts: the order of Spark's min/max and
\* of the >= / <= comparisons on the dateTime column.
StrLess(a, b) ==
    IF b = << >> THEN FALSE
    ELSE IF a = << >> THEN TRUE
    ELSE IF Head(a) # Head(b) THEN Head(a) < Head(b)
    ELSE StrLess(Tail(a), Tail(b))

StrLeq(a, b) == a = b \/ StrLess(a, b)

IsPrefix(p, s) == Len(p) <= Len(s) /\ SubSeq(s, 1, Len(p)) = p

RECURSIVE NatStr(_)
NatStr(n) == IF n < 10 THEN << 48 + n >> ELSE NatStr(n \div 10) \o << 48 + (n % 10) >>

\* '{}'.format(v) of an optional integer: 'None' for None, else its digits.
FormatNum(o) ==
    IF o = None THEN << 78, 111, 110, 101 >>
    ELSE IF o[1] < 0 THEN << 45 >> \o NatStr(0 - o[1])
    ELSE NatStr(o[1])

\* '{}'.format(v) of an optional text: 'None' for None, else the text.
FormatStr(o) == IF o = None THEN << 78, 111, 110, 101 >> ELSE o[1]

\* '_SeP_'
DATE_VALUE_SEPARATOR == << 95, 83, 101, 80, 95 >>

\* '{}{}{}'.format(d, DATE_VALUE_SEPARATOR, v), d and v already formatted.
merge_date_and_value(d, v) == d \o DATE_VALUE_SEPARATOR \o v

RECURSIVE SplitAcc(_, _, _)
SplitAcc(s, pat, cur) ==
    IF s = << >> THEN << cur >>
    ELSE IF IsPrefix(pat, s)
         THEN << cur >> \o SplitAcc(SubSeq(s, Len(pat) + 1, Len(s)), pat, << >>)
         ELSE SplitAcc(Tail(s), pat, Append(cur, Head(s)))

\* Series.str.split(pat) of one entry: the pieces between the occurrences of
\* pat, found left to right without overlap.
str_split(s, pat) == SplitAcc(s, pat, << >>)

\* Series.str.split(pat, expand=True)[1] over the entries of a column, given
\* as a function from row index to text.  The expanded frame has as many
\* columns as the longest split, none at all for an empty column, and
\* selecting a missing column 1 raises KeyError (ok = FALSE).
split_expand_1(col) ==
    IF \A i \in DOMAIN col : Len(str_split(col[i], DATE_VALUE_SEPARATOR)) < 2
    THEN [ ok |-> FALSE, col |-> [ i \in DOMAIN col |-> None ] ]
    ELSE [ ok |-> TRUE,
           col |-> [ i \in DOMAIN col |->
                       LET parts == str_split(col[i], DATE_VALUE_SEPARATOR)
                       IN  IF Len(parts) >= 2 THEN Some(parts[2]) ELSE None ] ]

-----------------------------------------------------------------------------
(* SQL text as tokens, and its evaluation on a row *)

LP == << [ t |-> "(" ] >>

RP == << [ t |-> ")" ] >>

AND == << [ t |-> "AND" ] >>

OR == << [ t |-> "OR" ] >>

SQL_TRUE == << [ t |-> "TRUE" ] >>

SQL_FALSE == << [ t |-> "FALSE" ] >>

\* One comparison, e.g. dateTime >= "2020": column, operator, right-hand side.
Atom(col, op, val) == << [ t |-> "atom", col |-> col, op |-> op, val |-> val ] >>

\* Whether a comparison is true of a row.  A comparison with a NULL column is
\* NULL in SQL; the rendered text uses only AND and OR, under which a WHERE
\* clause keeps a row exactly when the clause with every NULL comparison read
\* as false is true, so NULL comparisons are false here.
\* value.codeableConcept.coding / .system are read as the coded value of the
\* row and its coding system.
EvalAtom(a, r) ==
    CASE a.col = "dateTime" ->
            IF a.op = ">=" THEN StrLeq(a.val, r.dateTime) ELSE StrLeq(r.dateTime, a.val)
      [] a.col = "coding.code" ->
            IF a.op = "=" THEN r.coding.code = a.val ELSE r.coding.code # a.val
      [] a.col = "value.codeableConcept.coding" ->
            r.valueCoding # None /\ r.valueCoding[1].code \in a.val
      [] a.col = "value.codeableConcept.system" ->
            IF a.op = "IS NULL"
            THEN r.valueCoding = None \/ r.valueCoding[1].system = None
            ELSE r.valueCoding # None /\ r.valueCoding[1].system = Some(a.val)
      [] a.col = "value.quantity.value" ->
            /\ r.value.quantity # None
            /\ IF a.op = ">=" THEN r.value.quantity[1] >= a.val
                              ELSE r.value.quantity[1] <= a.val
      [] a.col = "locationId" -> r.locationId # None /\ r.locationId[1] \in a.val
      [] a.col = "encTypeCode" -> r.encTypeCode # None /\ r.encTypeCode[1] \in a.val
      [] a.col = "encTypeSystem" -> r.encTypeSystem = Some(a.val)

RECURSIVE ParseOr(_, _, _), ParseOrRest(_, _, _, _), ParseAnd(_, _, _),
          ParseAndRest(_, _, _, _), ParsePrimary(_, _, _)

\* primary ::= ( or-expression ) | TRUE | FALSE | comparison
ParsePrimary(ts, i, r) ==
    IF ts[i].t = "("
    THEN LET e == ParseOr(ts, i + 1, r) IN [ v |-> e.v, i |-> e.i + 1 ]
    ELSE [ v |-> CASE ts[i].t = "TRUE" -> TRUE
                   [] ts[i].t = "FALSE" -> FALSE
                   [] ts[i].t = "atom" -> EvalAtom(ts[i], r),
           i |-> i + 1 ]

ParseAndRest(ts, i, acc, r) ==
    IF i <= Len(ts) /\ ts[i].t = "AND"
    THEN LET e == ParsePrimary(ts, i + 1, r) IN ParseAndRest(ts, e.i, acc /\ e.v, r)
    ELSE [ v |-> acc, i |-> i ]

\* AND binds tighter than OR.
ParseAnd(ts, i, r) ==
    LET e == ParsePrimary(ts, i, r) IN ParseAndRest(ts, e.i, e.v, r)

ParseOrRest(ts, i, acc, r) ==
    IF i <= Len(ts) /\ ts[i].t = "OR"
    THEN LET e == ParseAnd(ts, i + 1, r) IN ParseOrRest(ts, e.i, acc \/ e.v, r)
    ELSE [ v |-> acc, i |-> i ]

ParseOr(ts, i, r) ==
    LET e == ParseAnd(ts, i, r) IN ParseOrRest(ts, e.i, e.v, r)

\* DataFrame.where(text): whether the row is kept.
EvalSql(ts, r) == ParseOr(ts, 1, r).v

-----------------------------------------------------------------------------
(* _ObsConstraints *)

\* _ObsConstraints.__init__
ObsConstraints(code, values, value_sys, min_value, max_value, min_time, max_time) ==
    [ code      |-> code,
      sys_str   |-> IF TruthyId(value_sys)
                    THEN [ op |-> "=", val |-> value_sys[1] ]
                    ELSE [ op |-> "IS NULL", val |-> "" ],
      values    |-> values,
      min_time  |-> min_time,
      max_time  |-> max_time,
      min_value |-> min_value,
      max_value |-> max_value ]

\* _ObsConstraints.time_constraint
time_constraint(min_time, max_time) ==
    IF ~TruthySeq(min_time) /\ ~TruthySeq(max_time)
    THEN SQL_TRUE
    ELSE LET cl == (IF TruthySeq(min_time)
                    THEN << Atom("dateTime", ">=", min_time[1]) >> ELSE << >>)
                   \o (IF TruthySeq(max_time)
                       THEN << Atom("dateTime", "<=", max_time[1]) >> ELSE << >>)
         IN  Join(cl, AND)

\* The clauses _ObsConstraints.sql appends for the value of the observation.
value_clauses(c) ==
    IF TruthySeq(c.values)
    THEN << Atom("value.codeableConcept.coding", "IN", Range(c.values[1])),
            Atom("value.codeableConcept.system", c.sys_str.op, c.sys_str.val) >>
    ELSE IF TruthyNum(c.min_value) \/ TruthyNum(c.max_value)
    THEN (IF TruthyNum(c.min_value)
          THEN << Atom("value.quantity.value", ">=", c.min_value[1]) >> ELSE << >>)
         \o (IF TruthyNum(c.max_value)
             THEN << Atom("value.quantity.value", "<=", c.max_value[1]) >> ELSE << >>)
    ELSE << >>

\* _ObsConstraints.sql
ObsConstraints_sql(c) ==
    LET cl == << time_constraint(c.min_time, c.max_time),
                 Atom("coding.code", "=", c.code) >> \o value_clauses(c)
    IN  LP \o Join(cl, AND) \o RP

-----------------------------------------------------------------------------
(* _EncounterContraints *)

\* _EncounterContraints.__init__
EncounterContraints(locationId, typeSystem, typeCode) ==
    [ location_id |-> locationId, type_system |-> typeSystem, type_code |-> typeCode ]

has_location(e) == e.location_id # None

has_type(e) == e.type_code # None \/ e.type_system # None

\* _EncounterContraints.sql
EncounterContraints_sql(e) ==
    LET loc_str == IF TruthySeq(e.location_id)
                   THEN Atom("locationId", "IN", Range(e.location_id[1]))
                   ELSE SQL_TRUE
        type_code_str == IF TruthySeq(e.type_code)
                         THEN Atom("encTypeCode", "IN", Range(e.type_code[1]))
                         ELSE SQL_TRUE
        type_sys_str == IF TruthyId(e.type_system)
                        THEN Atom("encTypeSystem", "=", e.type_system[1])
                        ELSE SQL_TRUE
    IN  loc_str \o AND \o type_code_str \o AND \o type_sys_str

-----------------------------------------------------------------------------
(* PatientQuery: the constraint builder *)

\* Mutant of has_constraint: the duplicate check never fires.
has_constraint_never(cc, code) == FALSE

\* code in self._code_constraint (the dict is kept in insertion order, as a
\* sequence of _ObsConstraints, each carrying its key in .code).
has_constraint(cc, code) == \E i \in 1..Len(cc) : cc[i].code = code

\* self._code_constraint[code] = c
dict_set(cc, code, c) ==
    IF \E i \in 1..Len(cc) : cc[i].code = code
    THEN [ i \in 1..Len(cc) |-> IF cc[i].code = code THEN c ELSE cc[i] ]
    ELSE Append(cc, c)

\* What a builder call leaves behind for the caller: the value returned
\* ("self", "None") or the exception raised.
Returned(op, args, ret) == [ op |-> op, args |-> args, ret |-> ret, result |-> None ]

\* The data source of the queries under study.
FileRoot == "root"

\* PatientQuery.__init__ / _SparkPatientQuery.__init__
QueryInit(cs) ==
    /\ query_class = "_SparkPatientQuery"
    /\ data_source = FileRoot
    /\ code_system = cs
    /\ code_constraint = << >>
    /\ enc_constraint = EncounterContraints(None, None, None)
    /\ include_all_codes = FALSE
    /\ all_codes_min_time = None
    /\ all_codes_max_time = None
    /\ flat_obs = None
    /\ call = Returned("__init__", << >>, "self")

\* PatientQuery.include_obs_in_value_and_time_range
include_obs_in_value_and_time_range(code, min_val, max_val, min_time, max_time) ==
    /\ IF has_constraint(code_constraint, code)
       THEN /\ call' = Returned("include_obs_in_value_and_time_range", << code >>,
                                "ValueError")
            /\ UNCHANGED code_constraint
       ELSE /\ code_constraint' = dict_set(code_constraint, code,
                   ObsConstraints(code, None, code_system, min_val, max_val,
                                  min_time, max_time))
            /\ call' = Returned("include_obs_in_value_and_time_range", << code >>,
                                "self")
    /\ UNCHANGED << query_class, data_source, code_system, enc_constraint, include_all_codes,
                    all_codes_min_time, all_codes_max_time, flat_obs,
                    keyVars >>

\* PatientQuery.include_obs_values_in_time_range
include_obs_values_in_time_range(code, values, min_time, max_time) ==
    /\ IF has_constraint(code_constraint, code)
       THEN /\ call' = Returned("include_obs_values_in_time_range", << code >>,
                                "ValueError")
            /\ UNCHANGED code_constraint
       ELSE /\ code_constraint' = dict_set(code_constraint, code,
                   ObsConstraints(code, values, code_system, None, None,
                                  min_time, max_time))
            /\ call' = Returned("include_obs_values_in_time_range", << code >>,
                                "self")
    /\ UNCHANGED << query_class, data_source, code_system, enc_constraint, include_all_codes,
                    all_codes_min_time, all_codes_max_time, flat_obs,
                    keyVars >>

\* PatientQuery.include_all_other_codes
include_all_other_codes(include, min_time, max_time) ==
    /\ include_all_codes' = include
    /\ all_codes_min_time' = min_time
    /\ all_codes_max_time' = max_time
    /\ call' = Returned("include_all_other_codes", << >>, "self")
    /\ UNCHANGED << query_class, data_source, code_system, code_constraint, enc_constraint, flat_obs,
                    keyVars >>

\* Mutant of encounter_constraints: an argument left out keeps the value an
\* earlier call gave it (a merge instead of a replacement).
encounter_constraints_merge(locationId, typeSystem, typeCode) ==
    /\ enc_constraint' = EncounterContraints(
           IF locationId = None THEN enc_constraint.location_id ELSE locationId,
           IF typeSystem = None THEN enc_constraint.type_system ELSE typeSystem,
           IF typeCode = None THEN enc_constraint.type_code ELSE typeCode)
    /\ call' = Returned("encounter_constraints",
                        << locationId, typeSystem, typeCode >>, "None")
    /\ UNCHANGED << query_class, data_source, code_system, code_constraint, include_all_codes,
                    all_codes_min_time, all_codes_max_time, flat_obs,
                    keyVars >>

\* PatientQuery.encounter_constraints: the method has no return statement.
encounter_constraints(locationId, typeSystem, typeCode) ==
    /\ enc_constraint' = EncounterContraints(locationId, typeSystem, typeCode)
    /\ call' = Returned("encounter_constraints",
                        << locationId, typeSystem, typeCode >>, "None")
    /\ UNCHANGED << query_class, data_source, code_system, code_constraint, include_all_codes,
                    all_codes_min_time, all_codes_max_time, flat_obs,
                    keyVars >>

\* PatientQuery._all_obs_constraints
all_obs_constraints(cc, include_all, min_time, max_time) ==
    IF cc = << >>
    THEN IF include_all THEN SQL_TRUE ELSE SQL_FALSE
    ELSE LET constraints_str ==
                 Join([ i \in 1..Len(cc) |-> ObsConstraints_sql(cc[i]) ], OR)
             others_str ==
                 Join([ i \in 1..Len(cc) |-> Atom("coding.code", "!=", cc[i].code) ]
                      \o << time_constraint(min_time, max_time) >>, AND)
         IN  IF ~include_all
             THEN LP \o constraints_str \o RP
             ELSE LP \o constraints_str \o OR \o LP \o others_str \o RP \o RP

\* PatientQuery.all_constraints_sql, as a function of the constraint state.
all_constraints_sql_of(cc, include_all, min_time, max_time, enc) ==
    all_obs_constraints(cc, include_all, min_time, max_time)
        \o AND \o EncounterContraints_sql(enc)

all_constraints_sql ==
    all_constraints_sql_of(code_constraint, include_all_codes, all_codes_min_time,
                           all_codes_max_time, enc_constraint)

-----------------------------------------------------------------------------
(* The input data: the Patient, Observation and Encounter resources read   *)
(* from Parquet.  They do not change while the query is used.              *)

T1 == << 49 >>

T2 == << 50 >>

T3 == << 51 >>

vA == << 65 >>

vB == << 66 >>

BaseUrl == "http://h/"

\* A resource id as stored: the base URL of its resource type, then the id.
ResourceId(base_url, kind, id) == [ base |-> << base_url, kind >>, id |-> id ]

Coding(system, code, display) == [ system |-> system, code |-> code, display |-> display ]

Patients ==
    << [ id |-> ResourceId(BaseUrl, "Patient/", "p1"), birthDate |-> "1980", gender |-> "f" ],
       [ id |-> ResourceId(BaseUrl, "Patient/", "p2"), birthDate |-> "1990", gender |-> "m" ] >>

Encounters ==
    << [ id |-> ResourceId(BaseUrl, "Encounter/", "e1"), subject |-> "p1",
         location |-> << [ LocationId |-> "L1", display |-> "one" ],
                         [ LocationId |-> "L2", display |-> "two" ],
                         [ LocationId |-> "L3", display |-> "three" ] >>,
         type |-> << [ system |-> "S1", code |-> "k1" ] >>,
         start |-> T1, end |-> T2 ],
       [ id |-> ResourceId(BaseUrl, "Encounter/", "e2"), subject |-> "p1",
         location |-> << [ LocationId |-> "L1", display |-> "one" ],
                         [ LocationId |-> "L2", display |-> "two" ],
                         [ LocationId |-> "L3", display |-> "three" ] >>,
         type |-> << [ system |-> "S1", code |-> "k1" ],
                     [ system |-> "S1", code |-> "k2" ] >>,
         start |-> T2, end |-> T3 ],
       [ id |-> ResourceId(BaseUrl, "Encounter/", "e3"), subject |-> "p2",
         location |-> << >>, type |-> << >>, start |-> T1, end |-> T3 ] >>

Observations ==
    << [ subject |-> "p1", codings |-> << Coding(Some("sysA"), "c1", "d") >>,
         valueCodings |-> << >>, quantity |-> Some(1), dateTime |-> T1,
         encounterId |-> Some("e1") ],
       [ subject |-> "p1", codings |-> << Coding(Some("sysA"), "c1", "d") >>,
         valueCodings |-> << >>, quantity |-> Some(2), dateTime |-> T3,
         encounterId |-> Some("e2") ],
       [ subject |-> "p1", codings |-> << Coding(None, "c1", "d") >>,
         valueCodings |-> << >>, quantity |-> Some(3), dateTime |-> T2,
         encounterId |-> Some("e1") ],
       [ subject |-> "p2", codings |-> << Coding(Some("sysA"), "c2", "d") >>,
         valueCodings |-> << [ system |-> Some("sysA"), code |-> vA ] >>,
         quantity |-> None, dateTime |-> T2, encounterId |-> Some("e3") ],
       [ subject |-> "p2", codings |-> << Coding(Some("sysA"), "c2", "d2") >>,
         valueCodings |-> << [ system |-> Some("sysB"), code |-> vA ] >>,
         quantity |-> None, dateTime |-> T3, encounterId |-> Some("e3") ],
       [ subject |-> "p2", codings |-> << Coding(Some("sysA"), "c3", "d"),
                                          Coding(None, "c3", "d") >>,
         valueCodings |-> << >>, quantity |-> Some(0), dateTime |-> T1,
         encounterId |-> Some("e3") ],
       [ subject |-> "p2", codings |-> << Coding(Some("sysA"), "c3", "d3") >>,
         valueCodings |-> << >>, quantity |-> Some(4), dateTime |-> T2,
         encounterId |-> Some("e3") ] >>

-----------------------------------------------------------------------------
(* _SparkPatientQuery: flatten, join, aggregate *)

\* F.regexp_replace(id, base, ''): the id with the base URL removed, or the id
\* as stored when it does not carry that base.
regexp_replace(id, base) == IF id.base = base THEN [ base |-> << >>, id |-> id.id ] ELSE id

\* F.explode_outer: one element per entry, a single NULL for an empty array.
explode_outer(arr) ==
    IF arr = << >> THEN << None >> ELSE [ i \in 1..Len(arr) |-> Some(arr[i]) ]

\* The where-clauses of _flatten_obs on coding.system and valueCoding.system.
system_matches(system, cs) ==
    IF TruthyId(cs) THEN system = Some(cs[1]) ELSE system = None

\* The rows _flatten_obs makes of one observation.
flatten_one_obs(o, cs) ==
    LET codings == SelectSeq(o.codings, LAMBDA c : system_matches(c.system, cs))
        valueCodings ==
            SelectSeq(explode_outer(o.valueCodings),
                      LAMBDA v : v = None \/ system_matches(v[1].system, cs))
        Row(c, v) ==
            [ coding |-> c,
              valueCoding |-> v,
              value |-> [ quantity |-> o.quantity ],
              patientId |-> o.subject,
              dateTime |-> o.dateTime,
              dateAndValue |-> merge_date_and_value(o.dateTime, FormatNum(o.quantity)),
              dateAndValueCode |->
                  merge_date_and_value(o.dateTime,
                      FormatStr(IF v = None THEN None ELSE Some(v[1].code))),
              encounterId |-> o.encounterId ]
    IN  Concat([ i \in 1..Len(codings) |->
                   [ j \in 1..Len(valueCodings) |-> Row(codings[i], valueCodings[j]) ] ])

\* _SparkPatientQuery._flatten_obs
flatten_obs(obs, cs) ==
    Concat([ k \in 1..Len(obs) |-> flatten_one_obs(obs[k], cs) ])

\* Mutant of flatten_one_encounter: locations and types are always exploded,
\* whatever the constraint and the force flag are.
flatten_one_encounter_explode_all(e, enc, base_encounter_url, force_location_type_columns) ==
    LET locations == explode_outer(e.location)
        types == explode_outer(e.type)
        Row(l, t) ==
            [ encounterId |-> regexp_replace(e.id, base_encounter_url),
              encPatientId |-> e.subject,
              first |-> e.start,
              last |-> e.end,
              locationId |-> IF l = None THEN None ELSE Some(l[1].LocationId),
              locationDisplay |-> IF l = None THEN None ELSE Some(l[1].display),
              encTypeSystem |-> IF t = None THEN None ELSE Some(t[1].system),
              encTypeCode |-> IF t = None THEN None ELSE Some(t[1].code) ]
    IN  Concat([ i \in 1..Len(locations) |->
                   [ j \in 1..Len(types) |-> Row(locations[i], types[j]) ] ])

\* The rows _flatten_encounter makes of one encounter, before its where().
flatten_one_encounter(e, enc, base_encounter_url, force_location_type_columns) ==
    LET locations == IF has_location(enc) \/ force_location_type_columns
                     THEN explode_outer(e.location) ELSE << None >>
        types == IF has_type(enc) \/ force_location_type_columns
                 THEN explode_outer(e.type) ELSE << None >>
        Row(l, t) ==
            [ encounterId |-> regexp_replace(e.id, base_encounter_url),
              encPatientId |-> e.subject,
              first |-> e.start,
              last |-> e.end,
              locationId |-> IF l = None THEN None ELSE Some(l[1].LocationId),
              locationDisplay |-> IF l = None THEN None ELSE Some(l[1].display),
              encTypeSystem |-> IF t = None THEN None ELSE Some(t[1].system),
              encTypeCode |-> IF t = None THEN None ELSE Some(t[1].code) ]
    IN  Concat([ i \in 1..Len(locations) |->
                   [ j \in 1..Len(types) |-> Row(locations[i], types[j]) ] ])

\* _SparkPatientQuery._flatten_encounter
flatten_encounter(encs, enc, base_encounter_url, force_location_type_columns) ==
    SelectSeq(
        Concat([ k \in 1..Len(encs) |->
                   flatten_one_encounter(encs[k], enc, base_encounter_url,
                                         force_location_type_columns) ]),
        LAMBDA r : EvalSql(EncounterContraints_sql(enc), r))

\* self._flat_obs.join(flat_enc, flat_enc.encounterId == self._flat_obs.encounterId)
\* An inner join: a NULL encounterId matches nothing.
join_obs_enc(flat, flat_enc) ==
    Concat([ i \in 1..Len(flat) |->
               LET o == flat[i]
                   matching == SelectSeq(flat_enc,
                       LAMBDA e : /\ o.encounterId # None
                                  /\ e.encounterId = [ base |-> << >>,
                                                       id |-> o.encounterId[1] ])
               IN  [ j \in 1..Len(matching) |-> o @@ matching[j] ] ])

\* Spark's min / max over a column skip NULL and are NULL over no value.
MinNum(acc, o) == IF o = None THEN acc ELSE IF acc = None \/ o[1] < acc[1] THEN o ELSE acc

MaxNum(acc, o) == IF o = None THEN acc ELSE IF acc = None \/ o[1] > acc[1] THEN o ELSE acc

MinStr(acc, x) == IF acc = None \/ StrLess(x, acc[1]) THEN Some(x) ELSE acc

MaxStr(acc, x) == IF acc = None \/ StrLess(acc[1], x) THEN Some(x) ELSE acc

\* The aggregate of an empty group.
EmptyAgg ==
    [ num_obs |-> 0, min_value |-> None, max_value |-> None,
      min_date |-> None, max_date |-> None,
      min_date_value |-> None, max_date_value |-> None,
      min_date_value_code |-> None, max_date_value_code |-> None ]

\* The aggregates of _aggregate_patient_codes after one more row of the group.
agg_update(acc, r) ==
    [ num_obs |-> acc.num_obs + 1,
      min_value |-> MinNum(acc.min_value, r.value.quantity),
      max_value |-> MaxNum(acc.max_value, r.value.quantity),
      min_date |-> MinStr(acc.min_date, r.dateTime),
      max_date |-> MaxStr(acc.max_date, r.dateTime),
      min_date_value |-> MinStr(acc.min_date_value, r.dateAndValue),
      max_date_value |-> MaxStr(acc.max_date_value, r.dateAndValue),
      min_date_value_code |-> MinStr(acc.min_date_value_code, r.dateAndValueCode),
      max_date_value_code |-> MaxStr(acc.max_date_value_code, r.dateAndValueCode) ]

RECURSIVE agg_rows(_, _)
agg_rows(acc, rs) == IF rs = << >> THEN acc ELSE agg_rows(agg_update(acc, Head(rs)), Tail(rs))

RECURSIVE distinct(_, _)
\* The distinct entries of a sequence, in the order of their first occurrence.
distinct(s, seen) ==
    IF s = << >> THEN << >>
    ELSE IF Head(s) \in seen THEN distinct(Tail(s), seen)
    ELSE << Head(s) >> \o distinct(Tail(s), seen \cup { Head(s) })

\* _SparkPatientQuery._aggregate_patient_codes: groupBy(['patientId', 'coding'])
aggregate_patient_codes(flat) ==
    LET keys == distinct([ i \in 1..Len(flat) |->
                            [ patientId |-> flat[i].patientId, coding |-> flat[i].coding ] ],
                         { })
    IN  [ k \in 1..Len(keys) |->
            keys[k] @@ agg_rows(EmptyAgg,
                SelectSeq(flat, LAMBDA r : /\ r.patientId = keys[k].patientId
                                           /\ r.coding = keys[k].coding)) ]

\* _SparkPatientQuery._join_patients_agg_obs
join_patients_agg_obs(patients, agg_obs, base_patient_url) ==
    LET flat_patients ==
            [ i \in 1..Len(patients) |->
                [ actual_id |-> regexp_replace(patients[i].id, base_patient_url),
                  birthDate |-> patients[i].birthDate,
                  gender |-> patients[i].gender ] ]
    IN  Concat([ i \in 1..Len(flat_patients) |->
                   LET p == flat_patients[i]
                       matching == SelectSeq(agg_obs,
                           LAMBDA a : p.actual_id = [ base |-> << >>, id |-> a.patientId ])
                   IN  [ j \in 1..Len(matching) |->
                           LET a == matching[j]
                           IN  [ patientId |-> a.patientId, birthDate |-> p.birthDate,
                                 gender |-> p.gender, code |-> a.coding.code,
                                 num_obs |-> a.num_obs,
                                 min_value |-> a.min_value, max_value |-> a.max_value,
                                 min_date |-> a.min_date, max_date |-> a.max_date,
                                 min_date_value |-> a.min_date_value,
                                 max_date_value |-> a.max_date_value,
                                 min_date_value_code |-> a.min_date_value_code,
                                 max_date_value_code |-> a.max_date_value_code ] ] ])

RECURSIVE SeqToBag(_)
\* A table up to the order of its rows, which Spark does not fix.
SeqToBag(s) == IF s = << >> THEN EmptyBag ELSE SetToBag({ Head(s) }) (+) SeqToBag(Tail(s))

\* The pandas part of get_patient_obs_view: the four decoded columns, then the
\* selection of the view's columns.  ok = FALSE when a column selection raised.
obs_view_to_pandas(df) ==
    LET last_value == split_expand_1([ i \in 1..Len(df) |-> df[i].max_date_value[1] ])
        first_value == split_expand_1([ i \in 1..Len(df) |-> df[i].min_date_value[1] ])
        last_value_code ==
            split_expand_1([ i \in 1..Len(df) |-> df[i].max_date_value_code[1] ])
        first_value_code ==
            split_expand_1([ i \in 1..Len(df) |-> df[i].min_date_value_code[1] ])
    IN  IF ~(last_value.ok /\ first_value.ok /\ last_value_code.ok /\ first_value_code.ok)
        THEN [ ok |-> FALSE, table |-> EmptyBag ]
        ELSE [ ok |-> TRUE,
               table |-> SeqToBag([ i \in 1..Len(df) |->
                   [ patientId |-> df[i].patientId, birthDate |-> df[i].birthDate,
                     gender |-> df[i].gender, code |-> df[i].code,
                     num_obs |-> df[i].num_obs,
                     min_value |-> df[i].min_value, max_value |-> df[i].max_value,
                     min_date |-> df[i].min_date, max_date |-> df[i].max_date,
                     first_value |-> first_value.col[i],
                     last_value |-> last_value.col[i],
                     first_value_code |-> first_value_code.col[i],
                     last_value_code |-> last_value_code.col[i] ] ]) ]

\* join_df of get_patient_obs_view: the flattened observations joined with the
\* encounters flattened without forced columns, filtered by the constraints.
obs_view_join(flat, enc, sql, base_url) ==
    LET flat_enc == flatten_encounter(Encounters, enc, << base_url, "Encounter/" >>, FALSE)
    IN  SelectSeq(join_obs_enc(flat, flat_enc), LAMBDA r : EvalSql(sql, r))

\* get_patient_obs_view after _make_sure_obs, on the flattened observations.
obs_view(flat, enc, sql, base_url) ==
    obs_view_to_pandas(
        join_patients_agg_obs(Patients,
            aggregate_patient_codes(obs_view_join(flat, enc, sql, base_url)),
            << base_url, "Patient/" >>))

\* The groupBy(column_list).agg(...) of get_patient_encounter_view.  A column
\* that is not in column_list is None in the rows of the table.
encounter_view(enc, base_url, force_location_type_columns) ==
    LET flat_enc == flatten_encounter(Encounters, enc, << base_url, "Encounter/" >>,
                                      force_location_type_columns)
        with_location == has_location(enc) \/ force_location_type_columns
        with_type == has_type(enc) \/ force_location_type_columns
        Key(r) == [ encPatientId |-> r.encPatientId,
                    locationId |-> IF with_location THEN r.locationId ELSE None,
                    locationDisplay |-> IF with_location THEN r.locationDisplay ELSE None,
                    encTypeSystem |-> IF with_type THEN r.encTypeSystem ELSE None,
                    encTypeCode |-> IF with_type THEN r.encTypeCode ELSE None ]
        keys == distinct([ i \in 1..Len(flat_enc) |-> Key(flat_enc[i]) ], { })
        Group(k) == SelectSeq(flat_enc, LAMBDA r : Key(r) = k)
        MinOf(col) == LET m == CHOOSE x \in Range(col) : \A y \in Range(col) : StrLeq(x, y)
                      IN  m
        MaxOf(col) == LET m == CHOOSE x \in Range(col) : \A y \in Range(col) : StrLeq(y, x)
                      IN  m
    IN  [ ok |-> TRUE,
          columns |-> << "encPatientId" >>
                      \o (IF with_location THEN << "locationId", "locationDisplay" >>
                                           ELSE << >>)
                      \o (IF with_type THEN << "encTypeSystem", "encTypeCode" >> ELSE << >>),
          table |-> SeqToBag([ k \in 1..Len(keys) |->
              LET g == Group(keys[k])
              IN  keys[k] @@
                  [ num_encounters |-> Len(g),
                    firstDate |-> MinOf([ i \in 1..Len(g) |-> g[i].first ]),
                    lastDate |-> MaxOf([ i \in 1..Len(g) |-> g[i].last ]) ] ]) ]

\* Mutant of make_sure_obs: the observation constraints of the first view are
\* applied to the frame that is cached.
make_sure_obs_filtered(cached) ==
    IF cached # None THEN cached
    ELSE Some(SelectSeq(flatten_obs(Observations, code_system),
                        LAMBDA r : EvalSql(all_obs_constraints(code_constraint,
                                               include_all_codes, all_codes_min_time,
                                               all_codes_max_time), r)))

\* _SparkPatientQuery._make_sure_obs: flattening happens once; a DataFrame is
\* always truthy, so a cached frame is kept whatever it holds.
make_sure_obs(cached) ==
    IF cached # None THEN cached ELSE Some(flatten_obs(Observations, code_system))

\* _SparkPatientQuery.get_patient_obs_view
get_patient_obs_view(base_url) ==
    /\ flat_obs' = make_sure_obs(flat_obs)
    /\ LET res == obs_view(flat_obs'[1], enc_constraint, all_constraints_sql, base_url)
       IN  call' = [ op |-> "get_patient_obs_view", args |-> << base_url >>,
                     ret |-> IF res.ok THEN "DataFrame" ELSE "KeyError",
                     result |-> res ]
    /\ UNCHANGED << query_class, data_source, code_system, code_constraint, enc_constraint, include_all_codes,
                    all_codes_min_time, all_codes_max_time, keyVars >>

\* _SparkPatientQuery.get_patient_encounter_view
get_patient_encounter_view(base_url, force_location_type_columns) ==
    /\ call' = [ op |-> "get_patient_encounter_view",
                 args |-> << base_url, force_location_type_columns >>,
                 ret |-> "DataFrame",
                 result |-> encounter_view(enc_constraint, base_url,
                                           force_location_type_columns) ]
    /\ UNCHANGED << query_class, data_source, code_system, code_constraint, enc_constraint, include_all_codes,
                    all_codes_min_time, all_codes_max_time, flat_obs, keyVars >>

-----------------------------------------------------------------------------
(* The date-value key on its own: one (patient, code) group whose rows are   *)
(* aggregated in any order and then decoded as get_patient_obs_view does.    *)

MaxGroup == 2

T1m == << 49, 45, 50 >>

v_SeP == << 95, 83, 101, 80 >>

KeyObservations ==
    { [ subject |-> "p1", codings |-> << Coding(None, "c1", "d") >>,
        valueCodings |-> << [ system |-> None, code |-> c ] >>,
        quantity |-> Some(q), dateTime |-> t, encounterId |-> None ] :
      t \in { T1, T1m, T2 }, q \in { 1, 2 }, c \in { vA, v_SeP } }

KeyIdle ==
    /\ rows = [ group |-> { }, pending |-> { } ]
    /\ agg = EmptyAgg
    /\ decoded = None

\* One more row of the group reaches the aggregation.
KeyIngest ==
    /\ \E o \in rows.pending :
         /\ agg' = agg_update(agg, flatten_one_obs(o, None)[1])
         /\ rows' = [ rows EXCEPT !.pending = @ \ { o } ]
    /\ UNCHANGED << decoded, queryVars >>

\* The aggregated group goes through the pandas part of the view.
KeyDecode ==
    /\ rows.pending = { }
    /\ agg.num_obs > 0
    /\ decoded = None
    /\ decoded' = Some(obs_view_to_pandas(
           << [ patientId |-> "p1", birthDate |-> "1980", gender |-> "f",
                code |-> "c1" ] @@ agg >>))
    /\ UNCHANGED << rows, agg, queryVars >>

InitKey ==
    /\ QueryInit(None)
    /\ \E g \in SUBSET KeyObservations :
         /\ Cardinality(g) \in 1..MaxGroup
         /\ rows = [ group |-> g, pending |-> g ]
    /\ agg = EmptyAgg
    /\ decoded = None

NextKey == KeyIngest \/ KeyDecode

SpecKey == InitKey /\ [][NextKey]_vars

-----------------------------------------------------------------------------
(* The query: inputs of the calls, and the specifications *)

CodeSystems == { None, Some("sysA") }

Codes == { "c1", "c2" }

\* Arguments of include_obs_in_value_and_time_range.
RangeArgs ==
    { << c, mn, None, None, mx >> : c \in Codes, mn \in { None, Some(2) },
                                    mx \in { None, Some(T2) } }

\* Arguments of include_obs_values_in_time_range.
ValuesArgs == { << c, Some(<< vA >>), None, None >> : c \in Codes }

\* Arguments of include_all_other_codes.
AllOtherArgs == { << b, None, mx >> : b \in BOOLEAN, mx \in { None, Some(T2) } }

\* Arguments of encounter_constraints: each may be None, empty or set.
EncArgs ==
    { << l, s, k >> : l \in { None, Some(<< >>), Some(<< "L1" >>) },
                      s \in { None, Some("S1") },
                      k \in { None, Some(<< >>), Some(<< "k1" >>) } }

\* Arguments of encounter_constraints used together with the views.
ViewEncArgs ==
    { << l, None, k >> : l \in { None, Some(<< "L1" >>) },
                         k \in { None, Some(<< >>), Some(<< "k1", "k2" >>),
                                 Some(<< "k2" >>) } }

Build(ranges, values, others, encs) ==
    \/ \E a \in ranges :
         include_obs_in_value_and_time_range(a[1], a[2], a[3], a[4], a[5])
    \/ \E a \in values : include_obs_values_in_time_range(a[1], a[2], a[3], a[4])
    \/ \E a \in others : include_all_other_codes(a[1], a[2], a[3])
    \/ \E a \in encs : encounter_constraints(a[1], a[2], a[3])

Init == (\E cs \in CodeSystems : QueryInit(cs)) /\ KeyIdle

\* The constraint builder alone.
Next == Build(RangeArgs, ValuesArgs, AllOtherArgs, EncArgs)

Spec == Init /\ [][Next]_vars

\* The builder interleaved with the two views of the Spark query.
NextView ==
    \/ Build(RangeArgs, ValuesArgs, AllOtherArgs, ViewEncArgs)
    \/ get_patient_obs_view(BaseUrl)
    \/ \E force \in BOOLEAN : get_patient_encounter_view(BaseUrl, force)

SpecView == Init /\ [][NextView]_vars

\* Arguments used to study the compiled predicate: time windows with either
\* or both bounds, numeric and coded value conditions.
TimeWindows ==
    { << None, None >>, << Some(T2), None >>, << None, Some(T2) >> }

PredRangeArgs ==
    { << c, b[1], b[2], w[1], w[2] >> :
        c \in Codes,
        b \in { << None, None >>, << Some(2), None >>, << None, Some(0) >> },
        w \in TimeWindows }

PredAllOtherArgs == { << b, w[1], w[2] >> : b \in BOOLEAN, w \in TimeWindows }

PredEncArgs == { << l, None, None >> : l \in { None, Some(<< "L1" >>) } }

NextPredicate == Build(PredRangeArgs, ValuesArgs, PredAllOtherArgs, PredEncArgs)

\* The builder with the inputs that shape the compiled predicate.
SpecPredicate == Init /\ [][NextPredicate]_vars

-----------------------------------------------------------------------------
(* The factory, and the query it makes for each runner *)

\* class Runner, and values that are no member of it.
Runners == { "SPARK", "BIG_QUERY" }

OtherRunners == { "FHIR_SERVER", "None" }

DataSources == { FileRoot, "dataset" }

\* No query has been made yet.
NoQuery ==
    /\ query_class = "None"
    /\ data_source = ""
    /\ code_system = None
    /\ code_constraint = << >>
    /\ enc_constraint = EncounterContraints(None, None, None)
    /\ include_all_codes = FALSE
    /\ all_codes_min_time = None
    /\ all_codes_max_time = None
    /\ flat_obs = None
    /\ call = Returned("import", << >>, "None")

\* _BigQueryEncounterConstraints.__init__
BigQueryEncounterConstraints(location_ids, type_system, type_codes) ==
    [ location_ids |-> location_ids, type_system |-> type_system,
      type_codes |-> type_codes ]

\* The fields that PatientQuery.__init__ and the __init__ of the sub-class set.
NewQuery(class, source, cs, enc) ==
    /\ query_class' = class
    /\ data_source' = source
    /\ code_system' = cs
    /\ code_constraint' = << >>
    /\ enc_constraint' = enc
    /\ include_all_codes' = FALSE
    /\ all_codes_min_time' = None
    /\ all_codes_max_time' = None
    /\ flat_obs' = None

\* Mutant of patient_query_factory: a runner that is not known gets the Spark
\* query.
patient_query_factory_spark_default(runner, source, cs) ==
    /\ IF runner = "BIG_QUERY"
       THEN NewQuery("_BigQueryPatientQuery", source, cs,
                     BigQueryEncounterConstraints(None, None, None))
       ELSE NewQuery("_SparkPatientQuery", source, cs,
                     EncounterContraints(None, None, None))
    /\ call' = Returned("patient_query_factory", << runner, source, cs >>,
                        IF runner = "BIG_QUERY" THEN "_BigQueryPatientQuery"
                        ELSE "_SparkPatientQuery")
    /\ UNCHANGED keyVars

\* patient_query_factory
patient_query_factory(runner, source, cs) ==
    /\ IF runner = "SPARK"
       THEN NewQuery("_SparkPatientQuery", source, cs,
                     EncounterContraints(None, None, None))
       ELSE IF runner = "BIG_QUERY"
       THEN NewQuery("_BigQueryPatientQuery", source, cs,
                     BigQueryEncounterConstraints(None, None, None))
       ELSE UNCHANGED << query_class, data_source, code_system, code_constraint,
                         enc_constraint, include_all_codes, all_codes_min_time,
                         all_codes_max_time, flat_obs >>
    /\ call' = Returned("patient_query_factory", << runner, source, cs >>,
                        CASE runner = "SPARK" -> "_SparkPatientQuery"
                          [] runner = "BIG_QUERY" -> "_BigQueryPatientQuery"
                          [] OTHER -> "ValueError")
    /\ UNCHANGED keyVars

\* _BigQueryPatientQuery.include_obs_in_value_and_time_range: the class
\* _BigQueryObsConstraints has no __init__, so making the constraint raises
\* TypeError before the dict is assigned.
BigQueryPatientQuery_include_obs_in_value_and_time_range(code, min_val, max_val, min_time, max_time) ==
    /\ call' = Returned("include_obs_in_value_and_time_range", << code >>,
                        IF has_constraint(code_constraint, code)
                        THEN "ValueError" ELSE "TypeError")
    /\ UNCHANGED << queryVarsButCall, keyVars >>

\* _BigQueryPatientQuery.include_obs_values_in_time_range
BigQueryPatientQuery_include_obs_values_in_time_range(code, values, min_time, max_time) ==
    /\ call' = Returned("include_obs_values_in_time_range", << code >>,
                        IF has_constraint(code_constraint, code)
                        THEN "ValueError" ELSE "TypeError")
    /\ UNCHANGED << queryVarsButCall, keyVars >>

\* _BigQueryPatientQuery.encounter_constraints
BigQueryPatientQuery_encounter_constraints(location_ids, type_system, type_codes) ==
    /\ enc_constraint' = BigQueryEncounterConstraints(location_ids, type_system, type_codes)
    /\ call' = Returned("encounter_constraints",
                        << location_ids, type_system, type_codes >>, "None")
    /\ UNCHANGED << query_class, data_source, code_system, code_constraint,
                    include_all_codes, all_codes_min_time, all_codes_max_time,
                    flat_obs, keyVars >>

\* PatientQuery.get_patient_obs_view, which _BigQueryPatientQuery inherits.
PatientQuery_get_patient_obs_view(base_url) ==
    /\ call' = Returned("get_patient_obs_view", << base_url >>, "NotImplementedError")
    /\ UNCHANGED << queryVarsButCall, keyVars >>

\* The rows of the query _BigQueryPatientQuery._build_encounter_query builds:
\* one per coding of a type of the encounter and per location (one with NULL
\* location when it has none), filtered by the constraints that are truthy.
build_encounter_query(base_url, location_ids, type_system, type_codes) ==
    LET RowsOf(e) ==
            LET locations == explode_outer(e.location)
            IN  Concat([ t \in 1..Len(e.type) |->
                  [ l \in 1..Len(locations) |->
                      [ encounterId |->
                            IF e.id.base # << >> /\ e.id.base[1] = base_url
                            THEN [ base |-> Tail(e.id.base), id |-> e.id.id ]
                            ELSE e.id,
                        encPatientId |-> e.subject,
                        first |-> e.start, last |-> e.end,
                        system |-> e.type[t].system, code |-> e.type[t].code,
                        LocationId |-> IF locations[l] = None THEN None
                                       ELSE Some(locations[l][1].LocationId),
                        display |-> IF locations[l] = None THEN None
                                    ELSE Some(locations[l][1].display) ] ] ])
        Where(r) ==
            /\ TruthySeq(location_ids)
               => r.LocationId # None /\ r.LocationId[1] \in Range(location_ids[1])
            /\ TruthyId(type_system) => r.system = type_system[1]
            /\ TruthySeq(type_codes) => r.code \in Range(type_codes[1])
    IN  SelectSeq(Concat([ k \in 1..Len(Encounters) |-> RowsOf(Encounters[k]) ]), Where)

\* _BigQueryPatientQuery.get_patient_encounter_view
BigQueryPatientQuery_get_patient_encounter_view(base_url, force_location_type_columns) ==
    /\ call' = [ op |-> "get_patient_encounter_view",
                 args |-> << base_url, force_location_type_columns >>,
                 ret |-> "DataFrame",
                 result |-> [ ok |-> TRUE,
                              table |-> SeqToBag(build_encounter_query(base_url,
                                            enc_constraint.location_ids,
                                            enc_constraint.type_system,
                                            enc_constraint.type_codes)) ] ]
    /\ UNCHANGED << queryVarsButCall, keyVars >>

FactoryRangeArgs == { << c, None, None, None, None >> : c \in Codes }

FactoryValuesArgs == { << "c1", Some(<< vA >>), None, None >> }

FactoryAllOtherArgs == { << b, None, None >> : b \in BOOLEAN }

FactoryEncArgs == { << l, None, None >> : l \in { None, Some(<< "L1" >>) } }

\* The calls a caller can make on the query the factory returned: the methods
\* of its class.
SparkCalls ==
    /\ query_class = "_SparkPatientQuery"
    /\ \/ Build(FactoryRangeArgs, FactoryValuesArgs, FactoryAllOtherArgs, FactoryEncArgs)
       \/ get_patient_obs_view(BaseUrl)
       \/ \E force \in BOOLEAN : get_patient_encounter_view(BaseUrl, force)

BigQueryCalls ==
    /\ query_class = "_BigQueryPatientQuery"
    /\ \/ \E a \in FactoryRangeArgs :
            BigQueryPatientQuery_include_obs_in_value_and_time_range(
                a[1], a[2], a[3], a[4], a[5])
       \/ \E a \in FactoryValuesArgs :
            BigQueryPatientQuery_include_obs_values_in_time_range(a[1], a[2], a[3], a[4])
       \/ \E a \in FactoryAllOtherArgs : include_all_other_codes(a[1], a[2], a[3])
       \/ \E a \in FactoryEncArgs :
            BigQueryPatientQuery_encounter_constraints(a[1], a[2], a[3])
       \/ PatientQuery_get_patient_obs_view(BaseUrl)
       \/ \E force \in BOOLEAN :
            BigQueryPatientQuery_get_patient_encounter_view(BaseUrl, force)

InitFactory == NoQuery /\ KeyIdle

NextFactory ==
    \/ \E runner \in Runners \cup OtherRunners, source \in DataSources,
          cs \in CodeSystems : patient_query_factory(runner, source, cs)
    \/ SparkCalls
    \/ BigQueryCalls

\* The factory, and the calls on the query it returned last.
SpecFactory == InitFactory /\ [][NextFactory]_vars

-----------------------------------------------------------------------------
(* Claims about the constraint builder (specification Spec) *)

ObsConstraintOps ==
    { "include_obs_in_value_and_time_range", "include_obs_values_in_time_range" }

BuilderOps == ObsConstraintOps \cup { "include_all_other_codes", "encounter_constraints" }

\* C1: a call of include_obs_in_value_and_time_range or
\* include_obs_values_in_time_range for a code that is already registered
\* raises the duplicate-constraint error (ValueError), and the registered
\* codes and the constraint stored for each are what they were before it.
C1_DuplicateRejected ==
    [][ (/\ call'.op \in ObsConstraintOps
         /\ \E i \in 1..Len(code_constraint) : code_constraint[i].code = call'.args[1])
        => (call'.ret = "ValueError" /\ code_constraint' = code_constraint) ]_vars

\* A duplicate was rejected while the other code was registered too.
C1_Witness ==
    /\ call.op \in ObsConstraintOps
    /\ call.ret = "ValueError"
    /\ Len(code_constraint) = 2

\* Encounter rows on which the encounter predicate is probed.
EncProbeRows ==
    { [ locationId |-> l, encTypeCode |-> k, encTypeSystem |-> s ] :
      l \in { None, Some("L1"), Some("L2") },
      k \in { None, Some("k1"), Some("k2") },
      s \in { None, Some("S1"), Some("S2") } }

\* C5: the encounter predicate is locationId-in-the-configured-set AND
\* type-code-in-the-configured-set AND type-system-equals-the-configured-one,
\* each condition being TRUE when its constraint is absent (None).
C5_EncounterPredicate ==
    \A r \in EncProbeRows :
        EvalSql(EncounterContraints_sql(enc_constraint), r)
        = ( /\ \/ enc_constraint.location_id = None
               \/ /\ r.locationId # None
                  /\ r.locationId[1] \in Range(enc_constraint.location_id[1])
            /\ \/ enc_constraint.type_code = None
               \/ /\ r.encTypeCode # None
                  /\ r.encTypeCode[1] \in Range(enc_constraint.type_code[1])
            /\ \/ enc_constraint.type_system = None
               \/ r.encTypeSystem = enc_constraint.type_system )

\* C6: a call of encounter_constraints makes the active encounter constraint
\* exactly its three arguments and leaves the observation constraints, the
\* include-all-other-codes flag and its time window alone; no other call
\* changes the encounter constraint.
C6_EncounterReplaced ==
    [][ /\ call'.op = "encounter_constraints"
           => /\ enc_constraint' = [ location_id |-> call'.args[1],
                                     type_system |-> call'.args[2],
                                     type_code |-> call'.args[3] ]
              /\ UNCHANGED << code_constraint, include_all_codes,
                              all_codes_min_time, all_codes_max_time >>
        /\ call'.op # "encounter_constraints" => enc_constraint' = enc_constraint ]_vars

\* The last encounter_constraints call left out the location while an
\* observation constraint and the include-all flag were set.
C6_Witness ==
    /\ call.op = "encounter_constraints"
    /\ call.args[1] = None
    /\ call.args[3] # None
    /\ enc_constraint.location_id = None
    /\ Len(code_constraint) >= 1
    /\ include_all_codes

\* C7: every constraint-adding operation that succeeds returns the query
\* instance it was called on.
C7_ReturnsSelf ==
    (call.op \in BuilderOps /\ call.ret # "ValueError") => call.ret = "self"

-----------------------------------------------------------------------------
(* Claims about the views of the Spark query (specification SpecView) *)

\* The rows of the join of get_patient_obs_view before its where().
JoinedRows ==
    join_obs_enc(flatten_obs(Observations, code_system),
                 flatten_encounter(Encounters, enc_constraint,
                                   << BaseUrl, "Encounter/" >>, FALSE))

\* C2: with no code registered and include-all-other-codes off, the
\* observation predicate is false of every row and get_patient_obs_view
\* returns a table of zero rows.
C2_EmptyResult ==
    (call.op = "get_patient_obs_view" /\ code_constraint = << >> /\ ~include_all_codes)
    => /\ \A i \in 1..Len(JoinedRows) : ~EvalSql(all_constraints_sql, JoinedRows[i])
       /\ call.ret = "DataFrame"
       /\ call.result.table = EmptyBag

RECURSIVE SumNumObs(_, _)
\* The sum of num_obs over the rows S of the table b.
SumNumObs(S, b) ==
    IF S = { } THEN 0
    ELSE LET x == CHOOSE y \in S : TRUE
         IN  x.num_obs * b[x] + SumNumObs(S \ { x }, b)

\* num_obs the view reports for a patient and a code.
CountedObs(table, p, c) ==
    SumNumObs({ x \in BagToSet(table) : x.patientId = p /\ x.code = c }, table)

InWindow(t, mn, mx) == (mn = None \/ StrLeq(mn[1], t)) /\ (mx = None \/ StrLeq(t, mx[1]))

\* The flattened observations of a patient and a code whose timestamp lies in
\* the all-other-codes window and whose encounter passes the encounter
\* predicate.
ExpectedObs(p, c) ==
    LET flat == flatten_obs(Observations, code_system)
        flat_enc == flatten_encounter(Encounters, enc_constraint,
                                      << BaseUrl, "Encounter/" >>, FALSE)
    IN  Cardinality({ i \in 1..Len(flat) :
            /\ flat[i].patientId = p
            /\ flat[i].coding.code = c
            /\ InWindow(flat[i].dateTime, all_codes_min_time, all_codes_max_time)
            /\ flat[i].encounterId # None
            /\ \E j \in 1..Len(flat_enc) :
                   flat_enc[j].encounterId = [ base |-> << >>,
                                               id |-> flat[i].encounterId[1] ] })

\* C3: with no code registered and include-all-other-codes on, num_obs of a
\* (patient, code) group counts, once each, exactly the observations whose
\* timestamp lies in the all-other-codes window and whose encounter passes
\* the encounter predicate.
C3_AllOthersCounted ==
    (call.op = "get_patient_obs_view" /\ code_constraint = << >> /\ include_all_codes)
    => /\ call.ret = "DataFrame"
       /\ \A p \in { "p1", "p2" }, c \in { "c1", "c2", "c3" } :
              CountedObs(call.result.table, p, c) = ExpectedObs(p, c)

\* The types of an encounter that the type constraint keeps; an encounter
\* without a type has one (NULL) type row, kept when no type is asked for.
\* An empty list of type codes asks for no type.
TypesKept(e) ==
    LET Keeps(system, code) ==
            /\ ~TruthySeq(enc_constraint.type_code)
               \/ (code # None /\ code[1] \in Range(enc_constraint.type_code[1]))
            /\ ~TruthyId(enc_constraint.type_system)
               \/ system = enc_constraint.type_system
    IN  IF e.type = << >>
        THEN IF Keeps(None, None) THEN 1 ELSE 0
        ELSE Cardinality({ j \in 1..Len(e.type) :
                             Keeps(Some(e.type[j].system), Some(e.type[j].code)) })

TypeConstrained == enc_constraint.type_code # None \/ enc_constraint.type_system # None

\* The rows the flattening of the last view call made of one encounter.
FlatRowsOf(e, force) ==
    flatten_encounter(<< e >>, enc_constraint, << call.args[1], "Encounter/" >>, force)

\* How often the observation view joined the flattened rows of the
\* observations of one encounter: the set of the join counts.
JoinCountsOf(e) ==
    LET flat == flat_obs[1]
        flat_enc == flatten_encounter(Encounters, enc_constraint,
                                      << call.args[1], "Encounter/" >>, FALSE)
    IN  { Len(join_obs_enc(<< flat[i] >>, flat_enc)) :
            i \in { n \in 1..Len(flat) :
                      regexp_replace(e.id, << call.args[1], "Encounter/" >>)
                      = [ base |-> << >>, id |-> flat[n].encounterId[1] ] } }

ColumnsMaterialized ==
    call.op = "get_patient_encounter_view"
    => /\ "locationId" \in Range(call.result.columns)
          <=> (enc_constraint.location_id # None \/ call.args[2])
       /\ "locationDisplay" \in Range(call.result.columns)
          <=> (enc_constraint.location_id # None \/ call.args[2])
       /\ "encTypeCode" \in Range(call.result.columns)
          <=> (TypeConstrained \/ call.args[2])
       /\ "encTypeSystem" \in Range(call.result.columns)
          <=> (TypeConstrained \/ call.args[2])

C10_ViewFromCurrentConstraints ==
    call.op = "get_patient_obs_view"
    => call.result = obs_view(flatten_obs(Observations, code_system), enc_constraint,
                              all_constraints_sql, call.args[1])

\* An observation view with two registered codes, the include-all flag and an
\* encounter constraint returned rows.
C10_Witness ==
    /\ call.op = "get_patient_obs_view"
    /\ call.result.ok
    /\ Len(code_constraint) = 2
    /\ include_all_codes
    /\ enc_constraint.type_code # None

-----------------------------------------------------------------------------
(* Claims about the compiled predicate (specification SpecPredicate) *)

\* Joined flat rows on which the predicate is probed: a registered or an
\* unregistered code, a timestamp before, at or after the bounds in use, a
\* numeric or a coded value, and a location inside or outside the constraint.
ProbeRows ==
    { [ coding |-> Coding(Some("sysA"), c, "d"),
        dateTime |-> t,
        value |-> [ quantity |-> v.quantity ],
        valueCoding |-> v.valueCoding,
        locationId |-> Some(l), encTypeCode |-> Some("k1"),
        encTypeSystem |-> Some("S1") ] :
      c \in { "c1", "c2", "c3" },
      t \in { T1, T2, T3 },
      v \in { [ quantity |-> Some(1), valueCoding |-> None ],
              [ quantity |-> Some(3), valueCoding |-> None ],
              [ quantity |-> None,
                valueCoding |-> Some([ system |-> Some("sysA"), code |-> vA ]) ] },
      l \in { "L1", "L2" } }

\* The time window of a constraint, on a row.
TimeWindowHolds(min_time, max_time, r) ==
    /\ TruthySeq(min_time) => StrLeq(min_time[1], r.dateTime)
    /\ TruthySeq(max_time) => StrLeq(r.dateTime, max_time[1])

\* The value condition of a constraint, on a row: all of its value clauses.
ValueConditionHolds(c, r) ==
    \A i \in 1..Len(value_clauses(c)) : EvalSql(value_clauses(c)[i], r)

\* The value condition of a constraint as configured: the coded-value
\* condition when values were given, else every numeric bound that was given.
ConfiguredValueCondition(c, r) ==
    IF c.values # None
    THEN ValueConditionHolds(c, r)
    ELSE /\ c.min_value # None
            => r.value.quantity # None /\ r.value.quantity[1] >= c.min_value[1]
         /\ c.max_value # None
            => r.value.quantity # None /\ r.value.quantity[1] <= c.max_value[1]

\* The predicate with the AND/OR grouping under study, over a given value
\* condition.
StructuredPredicate(ValueCondition(_, _), r) ==
    /\ EvalSql(EncounterContraints_sql(enc_constraint), r)
    /\ \/ \E i \in 1..Len(code_constraint) :
            /\ r.coding.code = code_constraint[i].code
            /\ TimeWindowHolds(code_constraint[i].min_time,
                               code_constraint[i].max_time, r)
            /\ ValueCondition(code_constraint[i], r)
       \/ /\ include_all_codes
          /\ \A i \in 1..Len(code_constraint) : r.coding.code # code_constraint[i].code
          /\ TimeWindowHolds(all_codes_min_time, all_codes_max_time, r)

\* C4: with at least one registered code, a joined flat row satisfies
\* all_constraints_sql exactly when the encounter predicate holds and either
\* its code is a registered code whose time window and value condition it
\* satisfies, or include-all-other-codes is on, its code is not registered
\* and its timestamp lies in the all-others window.
C4_PredicateStructure ==
    Len(code_constraint) >= 1
    => \A r \in ProbeRows :
         EvalSql(all_constraints_sql, r)
           = StructuredPredicate(ConfiguredValueCondition, r)

\* The grouping alone: the same equivalence over the value clauses that
\* _ObsConstraints.sql renders.
PredicateGrouping ==
    Len(code_constraint) >= 1
    => \A r \in ProbeRows :
         EvalSql(all_constraints_sql, r) = StructuredPredicate(ValueConditionHolds, r)

-----------------------------------------------------------------------------
(* Claims about the date-value key (specification SpecKey) *)

\* C8: for a group of two observations with timestamps T1 < T2, whatever the
\* order in which the rows are aggregated, the view reports min_date = T1,
\* max_date = T2, first_value = the value at T1 and last_value = the value at
\* T2.
C8_FirstLastValue ==
    \A o1, o2 \in rows.group :
        (/\ decoded # None
         /\ Cardinality(rows.group) = 2
         /\ StrLess(o1.dateTime, o2.dateTime))
        => /\ decoded[1].ok
           /\ \A x \in BagToSet(decoded[1].table) :
                /\ x.min_date = Some(o1.dateTime)
                /\ x.max_date = Some(o2.dateTime)
                /\ x.first_value = Some(FormatNum(o1.quantity))
                /\ x.last_value = Some(FormatNum(o2.quantity))

-----------------------------------------------------------------------------
(* Claims about the factory (specification SpecFactory) *)

\* The constraint state of a query nothing was added to.
EmptyConstraintState ==
    /\ code_constraint' = << >>
    /\ include_all_codes' = FALSE
    /\ all_codes_min_time' = None
    /\ all_codes_max_time' = None
    /\ \A f \in DOMAIN enc_constraint' : enc_constraint'[f] = None

C12_ViewsImplemented ==
    (/\ query_class \in { "_SparkPatientQuery", "_BigQueryPatientQuery" }
     /\ call.op \in { "get_patient_obs_view", "get_patient_encounter_view" })
    => call.ret # "NotImplementedError"

-----------------------------------------------------------------------------
(* Claims about flattening and grouping (specification SpecView) *)

\* C13: the code system of the query restricts code.coding only: once the
\* observations are flattened, every observation with a coding of its code in
\* the configured system has a flattened row for that coding, whatever the
\* system of its coded values is.
C13_ValueCodingUnrestricted ==
    flat_obs # None
    => \A k \in 1..Len(Observations) :
         LET o == Observations[k]
         IN  \A i \in 1..Len(o.codings) :
               o.codings[i].system = code_system
               => \E n \in 1..Len(flat_obs[1]) :
                    /\ flat_obs[1][n].coding = o.codings[i]
                    /\ flat_obs[1][n].patientId = o.subject
                    /\ flat_obs[1][n].dateTime = o.dateTime

\* C14: the observation view has at most one summary row for a patient and a
\* code.
C14_OneRowPerPatientCode ==
    (call.op = "get_patient_obs_view" /\ call.ret = "DataFrame")
    => \A p \in { "p1", "p2" }, c \in { "c1", "c2", "c3" } :
         LET matching == { x \in BagToSet(call.result.table) :
                             x.patientId = p /\ x.code = c }
         IN  /\ Cardinality(matching) <= 1
             /\ \A x \in matching : CopiesIn(x, call.result.table) = 1

-----------------------------------------------------------------------------
(* Claims about the numeric bounds (specification SpecPredicate) *)

\* C15: a row with the code of a range constraint satisfies the condition of
\* the constraint only if its numeric value is at least the min_val that was
\* given and at most the max_val that was given; a bound is absent only when
\* it was not given.  A constraint with coded values has no numeric bounds.
C15_NumericBounds ==
    \A i \in 1..Len(code_constraint) :
        LET c == code_constraint[i]
        IN  IF c.values # None
            THEN c.min_value = None /\ c.max_value = None
            ELSE \A r \in ProbeRows :
                   (r.coding.code = c.code /\ EvalSql(ObsConstraints_sql(c), r))
                   => /\ c.min_value # None
                         => /\ r.value.quantity # None
                            /\ r.value.quantity[1] >= c.min_value[1]
                      /\ c.max_value # None
                         => /\ r.value.quantity # None
                            /\ r.value.quantity[1] <= c.max_value[1]

-----------------------------------------------------------------------------
(* Claims about the order of the merged keys (specification SpecKey) *)

\* C16: the merged key keeps the order of the timestamps: once a group is
\* aggregated, every two of its rows with timestamps T1 < T2 have
\* key(T1, v1) < key(T2, v2), for the numeric and for the coded value, and
\* the least and the greatest key carry the timestamps min_date and max_date.
C16_KeyOrder ==
    (rows.group # { } /\ rows.pending = { })
    => /\ \A o1, o2 \in rows.group :
            StrLess(o1.dateTime, o2.dateTime)
            => /\ StrLess(merge_date_and_value(o1.dateTime, FormatNum(o1.quantity)),
                          merge_date_and_value(o2.dateTime, FormatNum(o2.quantity)))
               /\ StrLess(merge_date_and_value(o1.dateTime, o1.valueCodings[1].code),
                          merge_date_and_value(o2.dateTime, o2.valueCodings[1].code))
       /\ IsPrefix(agg.min_date[1] \o DATE_VALUE_SEPARATOR, agg.min_date_value[1])
       /\ IsPrefix(agg.max_date[1] \o DATE_VALUE_SEPARATOR, agg.max_date_value[1])
       /\ IsPrefix(agg.min_date[1] \o DATE_VALUE_SEPARATOR, agg.min_date_value_code[1])
       /\ IsPrefix(agg.max_date[1] \o DATE_VALUE_SEPARATOR, agg.max_date_value_code[1])

====
